---- MODULE Spec2Model ----
(***************************************************************************)
(* A model of the CloudOperator of pkg/data/cloud.go: the operations Stop, *)
(* Back and Restore acting on a cluster of pods through the pod directory  *)
(* (List / Update) and the remote exec channel.  One run of the model is   *)
(* one call of one operation on one cluster.                                *)
(***************************************************************************)
EXTENDS Integers, Naturals, Sequences, FiniteSets, TLC

\* ------------------------------------------------------------------------
\* Components and program constants (cloud.go:36-58)
\* ------------------------------------------------------------------------
TiDB == 0
PD == 1
TiKV == 2

MaxRetry == 5
DebugLabel == "runmode"
DebugValue == "debug"

\* The liveness threshold of checkStatus: count > 8 (cloud.go:423)
Threshold == 8

\* ------------------------------------------------------------------------
\* Bounds of the model
\* ------------------------------------------------------------------------
\* Number of TiKV pods in the cluster (TiDB and PD have one pod each).
NumTiKV == 2

Components == {TiDB, PD, TiKV}

Replicas(cp) == IF cp = TiKV THEN NumTiKV ELSE 1

\* A pod is named by its component and its ordinal (tikv-1, tikv-2, pd-1 ...).
Pods == {<<cp, i>> : cp \in Components, i \in 1..NumTiKV} \cap
        {p \in Components \X (1..NumTiKV) : p[2] <= Replicas(p[1])}

PodComponent(p) == p[1]

\* ------------------------------------------------------------------------
\* The cluster directory: Pods(namespace).List with and without selector
\* ------------------------------------------------------------------------
\* List with LabelSelector app.kubernetes.io/component=<cp>: the pods of the
\* component, in ordinal order, whatever their phase.
ListPods(cp) == [i \in 1..Replicas(cp) |-> <<cp, i>>]

\* List with empty ListOptions: every pod of the namespace.
ListAllPods == ListPods(TiDB) \o ListPods(PD) \o ListPods(TiKV)

\* ------------------------------------------------------------------------
\* Pod annotations: a Go map[string]string, possibly nil
\* ------------------------------------------------------------------------
NilMap == [isNil |-> TRUE, kv |-> {}]
EmptyMap == [isNil |-> FALSE, kv |-> {}]
MapPut(m, k, v) ==
    [isNil |-> FALSE, kv |-> {e \in m.kv : e[1] # k} \cup {<<k, v>>}]
MapDelete(m, k) == [m EXCEPT !.kv = {e \in m.kv : e[1] # k}]
MapHas(m, k, v) == <<k, v>> \in m.kv

AnnotationMaps == {NilMap, EmptyMap, MapPut(EmptyMap, DebugLabel, DebugValue)}

\* Stop, cloud.go:207-213.  ann is a local variable: when the pod has a
\* map, ann aliases the map of newPod and the write reaches newPod; when the
\* pod has no map, the map made at line 210 is bound to ann only and newPod
\* keeps its nil map.  The result is the annotation map newPod is sent with.
StopNewPodAnnotations(podAnn) ==
    LET ann == IF podAnn.isNil THEN EmptyMap ELSE podAnn
        written == MapPut(ann, DebugLabel, DebugValue)
    IN IF podAnn.isNil THEN podAnn ELSE written

\* ------------------------------------------------------------------------
\* Remote exec gateway: CloudOperator.exec (cloud.go:321-341)
\* ------------------------------------------------------------------------
\* channel[i] tells whether the i-th call of the remote exec channel succeeds.
ChannelRuns == [1..MaxRetry -> BOOLEAN]

RECURSIVE execLoop(_, _)
execLoop(channel, i) ==
    IF i > MaxRetry THEN [err |-> TRUE, attempts |-> MaxRetry]
    ELSE IF channel[i] THEN [err |-> FALSE, attempts |-> i]
    ELSE execLoop(channel, i + 1)

exec(channel) == execLoop(channel, 1)

\* Whether one exec ends in an error, over every run of the channel
ExecErrs == {exec(channel).err : channel \in ChannelRuns}

\* ------------------------------------------------------------------------
\* Text the remote commands print, as the lines strings.Split(.., "\r\n") yields
\* ------------------------------------------------------------------------
\* A line of probe output: a decimal number or some other text.
NumLine(n) == [num |-> TRUE, val |-> n]
TextLine == [num |-> FALSE, val |-> 0]

\* strconv.Atoi with its error dropped (cloud.go:421): 0 for a line that is
\* no number.
Atoi(line) == IF line.num THEN line.val ELSE 0

\* Token counts a probe may print for process 1: at the threshold and above it.
TokenCounts == {Threshold, Threshold + 1}

\* Outputs of "ps|awk '{print NF}'": the header line's count, then that of
\* process 1; a second line that is no number; no second line at all.
ProbeOutputs ==
    {<<NumLine(4), NumLine(n)>> : n \in TokenCounts}
        \cup {<<NumLine(4), TextLine>>, <<TextLine>>}

\* A name in a data directory: a version label and what follows it.
Name(label, suffix) == [label |-> label, suffix |-> suffix]

\* The directory BackExecCmd creates for a version (cloud.go:74)
BackDir(v) == Name(v, ".bat")

\* strings.TrimSuffix(name, ".back") (cloud.go:161)
TrimSuffix(name, suffix) ==
    IF name.suffix = suffix THEN Name(name.label, "") ELSE name

\* What follows the last "\r\n" of an output: an empty line.
EmptyLine == Name("", "")

\* Outputs of "ls <dir>|grep bat" on a pod, split at "\r\n": the backup
\* directories there (none, or that of the version asked for), then the empty
\* line.
DirListings == {<<EmptyLine>>, <<BackDir("5.2"), EmptyLine>>}

\* List, cloud.go:153-164: the versions of one pod from the lines of its
\* listing, appended to those already recorded under the pod's name.
RECURSIVE appendVersions(_, _)
appendVersions(versions, lines) ==
    IF lines = <<>> THEN versions
    ELSE IF Head(lines) = EmptyLine THEN appendVersions(versions, Tail(lines))
    ELSE appendVersions(Append(versions, TrimSuffix(Head(lines), ".back")),
                        Tail(lines))

\* ------------------------------------------------------------------------
\* State
\* ------------------------------------------------------------------------
VARIABLES
    op,          \* the operation called: "Stop", "Back", "Restore"
    version,     \* the version argument of Back and Restore
    pc,          \* position of the calling goroutine
    ret,         \* what the call returned: "none" while running, "nil", or the error
    phase,       \* cluster: pod -> pod.Status.Phase
    annot,       \* cluster: pod -> stored ObjectMeta.Annotations
    output,      \* cluster: pod -> stdout lines of the status probe on that pod
    dirs,        \* cluster: pod -> lines of "ls <dir>|grep bat" on that pod
    items,       \* Stop: pods.Items of the latest listing
    ci,          \* index of the component in the loop over components
    pi,          \* Stop: index of the pod in the loop over items
    statusOk,    \* check: what checkStatus returned
    tasks,       \* pod -> state of the goroutine Back / Restore started for it
    updateFailed,\* history: pods whose Update call failed
    updated,     \* history: pods whose Update call succeeded
    killSent,    \* history: pods the kill command was sent to
    killFailed,  \* history: pods on which the exec of the kill command failed
    listFailed,  \* history: the latest listing of pods by the call failed
    deleted,     \* history: pods Start deleted
    probeFailed, \* history of Check: pods on which the exec of the probe failed
    listed,      \* List: the map returned
    commands,    \* history of Check and List: the remote commands run
    attempt,     \* exec: the loop variable i
    calls,       \* exec history: outcome and output of every call of the channel
    stdout,      \* exec: the chunks of output held in the stdout buffer
    info,        \* exec: the string returned
    comp,        \* scripts: the component whose pod the scripts run on
    fs,          \* scripts: name in the data directory -> names inside it
    runs,        \* scripts history: the scripts run, <<kind, version>> each
    before,      \* scripts history: the names in the directory before the latest backup
    script,      \* scripts: the command line of the latest run
    command,     \* CLI: the command run, "back" or "restore"
    client,      \* CLI: NewCloudOperator makes an operator from the config given
    trace,       \* CLI history: the operations called, <<name, outcome>> each
    polls        \* CLI: the loop variable i of start

vars == <<op, version, pc, ret, phase, annot, output, dirs, items, ci, pi,
          statusOk, tasks, updateFailed, updated, killSent, killFailed,
          listFailed, deleted, probeFailed, listed, commands, attempt, calls,
          stdout, info, comp, fs, runs, before, script, command, client, trace,
          polls>>

\* The state of one exec taken call by call
gateway == <<attempt, calls, stdout, info>>

\* The state of the scripts run in one data directory
shell == <<comp, fs, runs, before, script>>

\* The state of a command of the CLI
cli == <<command, client, trace, polls>>

\* What the operations of CloudOperator never touch
apart == <<gateway, shell, cli>>

\* What Check and List record
observed == <<probeFailed, listed, commands>>

\* What the operations on the stopped cluster (Stop, Back, Restore) never touch
aside == <<deleted, observed, apart>>

cluster == <<phase, annot, output, dirs>>

history == <<updateFailed, updated, killSent, killFailed>>

\* The state of the operations of CloudOperator
operator == <<items, ci, pi, statusOk, tasks, history, listFailed, deleted,
              observed>>

Phases == {"Running", "Pending"}

\* The map List starts from (cloud.go:133), also the nil map it returns on error
EmptyRst == [name \in {} |-> <<>>]

\* ------------------------------------------------------------------------
\* Stop (cloud.go:198-230) and kill (cloud.go:362-385)
\* ------------------------------------------------------------------------
\* The order of the kill loop, cloud.go:221
StopOrder == <<TiDB, TiKV, PD>>

Return(e) == /\ ret' = e
             /\ pc' = "done"

\* cloud.go:199-203
StopList ==
    /\ op = "Stop" /\ pc = "StopList"
    /\ \E ok \in BOOLEAN :
        IF ok
        THEN /\ items' = ListAllPods
             /\ pi' = 1
             /\ pc' = "StopAnnotate"
             /\ listFailed' = FALSE
             /\ UNCHANGED ret
        ELSE /\ Return("list error")
             /\ listFailed' = TRUE
             /\ UNCHANGED <<items, pi>>
    /\ UNCHANGED <<op, version, cluster, ci, statusOk, tasks, history, aside>>

\* A Stop that logs the failed Update and goes on
StopUpdateIgnored(updateErr) == FALSE

\* What Stop does when Update fails: cloud.go:215-218 returns the error.
StopUpdateAborts(updateErr) == updateErr

\* cloud.go:205-220, one iteration of the loop, or its exit to line 221
StopAnnotate ==
    /\ op = "Stop" /\ pc = "StopAnnotate"
    /\ IF pi > Len(items)
       THEN /\ ci' = 1
            /\ pc' = "killList"
            /\ UNCHANGED <<ret, annot, pi, updateFailed, updated>>
       ELSE LET pod == items[pi] IN
            \E ok \in BOOLEAN :
              /\ annot' = IF ok
                          THEN [annot EXCEPT ![pod] = StopNewPodAnnotations(annot[pod])]
                          ELSE annot
              /\ updateFailed' = IF ok THEN updateFailed ELSE updateFailed \cup {pod}
              /\ updated' = IF ok THEN updated \cup {pod} ELSE updated
              /\ IF StopUpdateAborts(~ok)
                 THEN /\ Return("update error")
                      /\ UNCHANGED <<pi, ci>>
                 ELSE /\ pi' = pi + 1
                      /\ UNCHANGED <<ret, pc, ci>>
    /\ UNCHANGED <<op, version, phase, output, dirs, items, statusOk, tasks,
                   killSent, killFailed, listFailed, aside>>

\* kill, cloud.go:363-370
killList ==
    /\ op = "Stop" /\ pc = "killList"
    /\ \E ok \in BOOLEAN :
        IF ok
        THEN /\ items' = ListPods(StopOrder[ci])
             /\ pi' = 1
             /\ pc' = "killPod"
             /\ listFailed' = FALSE
             /\ UNCHANGED ret
        ELSE /\ Return("list error")
             /\ listFailed' = TRUE
             /\ UNCHANGED <<items, pi>>
    /\ UNCHANGED <<op, version, cluster, ci, statusOk, tasks, history, aside>>

\* A kill that goes on to the next pod after a failed exec
killExecIgnored(execErr) == FALSE

\* What kill does when exec of "kill 1" fails: cloud.go:379-381 returns the
\* error, and Stop returns it at cloud.go:223-226.
killExecAborts(execErr) == execErr

\* kill, cloud.go:371-384, one iteration of the loop over the pods, or its
\* exit back to the loop of Stop (cloud.go:221-229)
killPod ==
    /\ op = "Stop" /\ pc = "killPod"
    /\ IF pi > Len(items)
       THEN /\ IF ci = Len(StopOrder)
               THEN /\ Return("nil")
                    /\ UNCHANGED ci
               ELSE /\ ci' = ci + 1
                    /\ pc' = "killList"
                    /\ UNCHANGED ret
            /\ UNCHANGED <<pi, killSent, killFailed>>
       ELSE LET pod == items[pi] IN
            IF phase[pod] = "Running"
            THEN \E err \in ExecErrs :
                   /\ killSent' = killSent \cup {pod}
                   /\ killFailed' = IF err THEN killFailed \cup {pod} ELSE killFailed
                   /\ IF killExecAborts(err)
                      THEN /\ Return("exec failed")
                           /\ UNCHANGED pi
                      ELSE /\ pi' = pi + 1
                           /\ UNCHANGED <<ret, pc>>
                   /\ UNCHANGED ci
            ELSE /\ pi' = pi + 1
                 /\ UNCHANGED <<ret, pc, ci, killSent, killFailed>>
    /\ UNCHANGED <<op, version, cluster, items, statusOk, tasks, updateFailed,
                   updated, listFailed, aside>>


\* ------------------------------------------------------------------------
\* checkStatus (cloud.go:397-430)
\* ------------------------------------------------------------------------
\* The components Back and Restore loop over, cloud.go:244 and cloud.go:284
BackOrder == <<TiKV, PD>>

\* The pods of the components Back and Restore work on
BackPods == {p \in Pods : PodComponent(p) \in {TiKV, PD}}

\* Which execs on the pods of a set end in an error.  checkStatus and List
\* return at the first exec that fails, so the runs in which one exec at most
\* fails show every outcome.
FirstFailure(pods) ==
    {errs \in [pods -> ExecErrs] : \A p, q \in pods : errs[p] /\ errs[q] => p = q}

ProbeErrs == [cp \in {TiKV, PD} |-> FirstFailure({p \in Pods : PodComponent(p) = cp})]

ListErrs == FirstFailure(BackPods)

\* Which listings of List succeed: it returns at the first that fails.
ListOks ==
    {oks \in [1..Len(BackOrder) -> BOOLEAN] :
        \A j, k \in 1..Len(BackOrder) : ~oks[j] /\ ~oks[k] => j = k}

\* cloud.go:423: the pod fails the check when status != (count > 8)
statusMismatch(status, count) == status # (count > Threshold)

\* cloud.go:406-429, the loop over pods.Items from index i.  errs[pod] tells
\* whether the exec of the probe on pod ends in an error.  Indexing the split
\* output at [1] panics when it has no second line.
RECURSIVE checkStatusLoop(_, _, _, _)
checkStatusLoop(pods, i, status, errs) ==
    IF i > Len(pods) THEN "true"
    ELSE LET pod == pods[i] IN
         IF phase[pod] # "Running" THEN checkStatusLoop(pods, i + 1, status, errs)
         ELSE IF errs[pod] THEN "false"
         ELSE IF Len(output[pod]) < 2 THEN "panic"
         ELSE IF statusMismatch(status, Atoi(output[pod][2])) THEN "false"
         ELSE checkStatusLoop(pods, i + 1, status, errs)

\* cloud.go:397-430: "true", "false", or "panic"
checkStatus(name, status, listOk, errs) ==
    IF ~listOk THEN "false"
    ELSE checkStatusLoop(ListPods(name), 1, status, errs)

\* ------------------------------------------------------------------------
\* List (cloud.go:131-168), checkVersion (cloud.go:432-451), check
\* (cloud.go:387-395)
\* ------------------------------------------------------------------------
\* cloud.go:147-165, the loop over pods.Items from index i
RECURSIVE ListPodsLoop(_, _, _, _)
ListPodsLoop(pods, i, rst, errs) ==
    IF i > Len(pods) THEN [err |-> FALSE, rst |-> rst]
    ELSE LET pod == pods[i]
             versions == IF pod \in DOMAIN rst THEN rst[pod] ELSE <<>>
         IN IF errs[pod] THEN [err |-> TRUE, rst |-> EmptyRst]
            ELSE ListPodsLoop(pods, i + 1,
                     [name \in DOMAIN rst \cup {pod} |->
                         IF name = pod THEN appendVersions(versions, dirs[pod])
                         ELSE rst[name]],
                     errs)

\* cloud.go:134-166, the loop over the components from index k.  listOk[k]
\* tells whether the listing of the k-th component succeeds.
RECURSIVE ListLoop(_, _, _, _)
ListLoop(k, rst, listOk, errs) ==
    IF k > Len(BackOrder) THEN [err |-> FALSE, rst |-> rst]
    ELSE IF ~listOk[k] THEN [err |-> TRUE, rst |-> EmptyRst]
    ELSE LET r == ListPodsLoop(ListPods(BackOrder[k]), 1, rst, errs)
         IN IF r.err THEN r ELSE ListLoop(k + 1, r.rst, listOk, errs)

List(listOk, errs) == ListLoop(1, EmptyRst, listOk, errs)

\* cloud.go:135-146: List returns at a listing that fails, the k-th, which it
\* reaches when no exec on the pods of the components before it failed.
ListingFailed(listOk, errs) ==
    \E k \in 1..Len(BackOrder) :
        /\ ~listOk[k]
        /\ \A j \in 1..(k - 1) : listOk[j]
        /\ \A p \in BackPods :
             (\E j \in 1..(k - 1) : PodComponent(p) = BackOrder[j]) => ~errs[p]

\* cloud.go:432-451.  The error of List is logged, and the loop ranges over
\* the map it returned, nil on error.
checkVersion(v, listOk, errs) ==
    LET versions == List(listOk, errs).rst
    IN \A name \in DOMAIN versions :
         \E i \in 1..Len(versions[name]) : versions[name][i] = Name(v, "")

\* cloud.go:387-395: both failures are logged, and check returns true.
check(statusPassed, versionPassed) == TRUE

\* ------------------------------------------------------------------------
\* The goroutines of Back (cloud.go:265-274) and Restore (cloud.go:303-312)
\* ------------------------------------------------------------------------
\* One goroutine runs exec of the script on its pod and logs the outcome.
\* It runs as long as the process lives, also after the call has returned.
TaskRun(pod) ==
    /\ tasks[pod] = "inflight"
    /\ pc # "panic"
    /\ \E err \in ExecErrs :
        tasks' = [tasks EXCEPT ![pod] = IF err THEN "failed" ELSE "ok"]
    /\ UNCHANGED <<op, version, pc, ret, cluster, items, ci, pi, statusOk, history,
                   listFailed, aside>>

Task == \E pod \in Pods : TaskRun(pod)

InFlight == {pod \in Pods : tasks[pod] = "inflight"}

\* cloud.go:262-275 and cloud.go:300-313: wg.Add(1) and go func for every pod
\* of pods.Items, then on to the next component, or to wg.Wait after the last
FanOut(pods, waitAt, nextAt) ==
    /\ tasks' = [p \in Pods |->
                   IF \E i \in 1..Len(pods) : pods[i] = p THEN "inflight"
                   ELSE tasks[p]]
    /\ IF ci = Len(BackOrder)
       THEN /\ pc' = waitAt
            /\ UNCHANGED ci
       ELSE /\ ci' = ci + 1
            /\ pc' = nextAt
    /\ UNCHANGED ret

\* ------------------------------------------------------------------------
\* Back (cloud.go:242-279)
\* ------------------------------------------------------------------------
\* cloud.go:245-247: checkStatus of the component with status false
BackCheck ==
    /\ op = "Back" /\ pc = "BackCheck"
    /\ \E listOk \in BOOLEAN, errs \in ProbeErrs[BackOrder[ci]] :
      /\ LET r == checkStatus(BackOrder[ci], FALSE, listOk, errs) IN
        IF r = "panic" THEN pc' = "panic" /\ UNCHANGED ret
        ELSE IF r = "false" THEN Return("check failed")
        ELSE pc' = "BackFanOut" /\ UNCHANGED ret
      /\ listFailed' = ~listOk
    /\ UNCHANGED <<op, version, cluster, items, ci, pi, statusOk, tasks, history,
                   aside>>

\* cloud.go:248-276: the listing of the component's pods and one goroutine
\* for each of pods.Items
BackFanOut ==
    /\ op = "Back" /\ pc = "BackFanOut"
    /\ \E listOk \in BOOLEAN :
        IF listOk
        THEN FanOut(ListPods(BackOrder[ci]), "BackWait", "BackCheck")
             /\ listFailed' = FALSE
        ELSE /\ Return("list error")
             /\ listFailed' = TRUE
             /\ UNCHANGED <<ci, tasks>>
    /\ UNCHANGED <<op, version, cluster, items, pi, statusOk, history, aside>>

\* A Back that returns the error of a goroutine whose exec failed
BackResultFirstError ==
    IF \E p \in Pods : tasks[p] = "failed" THEN "exec failed" ELSE "nil"

\* cloud.go:278: what Back returns once every goroutine is done
BackResult == "nil"

\* cloud.go:277-278
BackWait ==
    /\ op = "Back" /\ pc = "BackWait"
    /\ InFlight = {}
    /\ Return(BackResult)
    /\ UNCHANGED <<op, version, cluster, items, ci, pi, statusOk, tasks, history,
                   listFailed, aside>>

\* ------------------------------------------------------------------------
\* Restore (cloud.go:282-317)
\* ------------------------------------------------------------------------
\* check, cloud.go:388-390: checkStatus of the component with status false;
\* a false is logged
RestoreCheckStatus ==
    /\ op = "Restore" /\ pc = "RestoreCheckStatus"
    /\ \E listOk \in BOOLEAN, errs \in ProbeErrs[BackOrder[ci]] :
      /\ LET r == checkStatus(BackOrder[ci], FALSE, listOk, errs) IN
        IF r = "panic" THEN pc' = "panic" /\ UNCHANGED statusOk
        ELSE /\ statusOk' = (r = "true")
             /\ pc' = "RestoreCheckVersion"
      /\ listFailed' = ~listOk
    /\ UNCHANGED <<op, version, ret, cluster, items, ci, pi, tasks, history, aside>>

\* check, cloud.go:391-394, and cloud.go:285-287: checkVersion, the value of
\* check, and what Restore does with it
RestoreCheckVersion ==
    /\ op = "Restore" /\ pc = "RestoreCheckVersion"
    /\ \E listOk \in ListOks, errs \in ListErrs :
      /\ IF check(statusOk, checkVersion(version, listOk, errs))
         THEN pc' = "RestoreFanOut" /\ UNCHANGED ret
         ELSE Return("check failed")
      /\ listFailed' = ListingFailed(listOk, errs)
    /\ statusOk' = TRUE
    /\ UNCHANGED <<op, version, cluster, items, ci, pi, tasks, history, aside>>

\* cloud.go:288-314: the listing of the component's pods and one goroutine
\* for each of pods.Items
RestoreFanOut ==
    /\ op = "Restore" /\ pc = "RestoreFanOut"
    /\ \E listOk \in BOOLEAN :
        IF listOk
        THEN FanOut(ListPods(BackOrder[ci]), "RestoreWait", "RestoreCheckStatus")
             /\ listFailed' = FALSE
        ELSE /\ Return("list error")
             /\ listFailed' = TRUE
             /\ UNCHANGED <<ci, tasks>>
    /\ UNCHANGED <<op, version, cluster, items, pi, statusOk, history, aside>>

\* cloud.go:316: what Restore returns once every goroutine is done
RestoreResult == "nil"

\* cloud.go:315-316
RestoreWait ==
    /\ op = "Restore" /\ pc = "RestoreWait"
    /\ InFlight = {}
    /\ Return(RestoreResult)
    /\ UNCHANGED <<op, version, cluster, items, ci, pi, statusOk, tasks, history,
                   listFailed, aside>>

\* ------------------------------------------------------------------------
\* Start (cloud.go:171-195) and delete (cloud.go:343-360)
\* ------------------------------------------------------------------------
\* The order of the delete loop, cloud.go:188
StartOrder == <<PD, TiKV, TiDB>>

\* cloud.go:172-175: the error of the listing is logged, and Start goes on
\* with the list the client returned with it, which has no items.
StartList ==
    /\ op = "Start" /\ pc = "StartList"
    /\ \E ok \in BOOLEAN :
        /\ listFailed' = ~ok
        /\ items' = IF ok THEN ListAllPods ELSE <<>>
        /\ pi' = 1
        /\ pc' = "StartAnnotate"
        /\ UNCHANGED ret
    /\ UNCHANGED <<op, version, cluster, ci, statusOk, tasks, history, deleted,
                   observed, apart>>

\* What Start does when Update fails: cloud.go:183-186 returns the error.
StartUpdateAborts(updateErr) == updateErr

\* cloud.go:176-187, one iteration of the loop, or its exit to line 188.
\* delete on the annotations of the copy removes the key, also from a nil map.
StartAnnotate ==
    /\ op = "Start" /\ pc = "StartAnnotate"
    /\ IF pi > Len(items)
       THEN /\ ci' = 1
            /\ pc' = "deleteList"
            /\ UNCHANGED <<ret, annot, pi, updateFailed, updated>>
       ELSE LET pod == items[pi] IN
            \E ok \in BOOLEAN :
              /\ annot' = IF ok
                          THEN [annot EXCEPT ![pod] = MapDelete(annot[pod], DebugLabel)]
                          ELSE annot
              /\ updateFailed' = IF ok THEN updateFailed ELSE updateFailed \cup {pod}
              /\ updated' = IF ok THEN updated \cup {pod} ELSE updated
              /\ IF StartUpdateAborts(~ok)
                 THEN /\ Return("update error")
                      /\ UNCHANGED <<pi, ci>>
                 ELSE /\ pi' = pi + 1
                      /\ UNCHANGED <<ret, pc, ci>>
    /\ UNCHANGED <<op, version, phase, output, dirs, items, statusOk, tasks,
                   killSent, killFailed, listFailed, deleted, observed, apart>>

\* delete, cloud.go:344-350
deleteList ==
    /\ op = "Start" /\ pc = "deleteList"
    /\ \E ok \in BOOLEAN :
        IF ok
        THEN /\ items' = ListPods(StartOrder[ci])
             /\ pi' = 1
             /\ pc' = "deletePod"
             /\ listFailed' = FALSE
             /\ UNCHANGED ret
        ELSE /\ Return("list error")
             /\ listFailed' = TRUE
             /\ UNCHANGED <<items, pi>>
    /\ UNCHANGED <<op, version, cluster, ci, statusOk, tasks, history, deleted,
                   observed, apart>>

\* delete, cloud.go:351-359, one iteration of the loop over the pods, or its
\* exit back to the loop of Start (cloud.go:188-194).  What the platform does
\* with a deleted pod is not the operator's.
deletePod ==
    /\ op = "Start" /\ pc = "deletePod"
    /\ IF pi > Len(items)
       THEN /\ IF ci = Len(StartOrder)
               THEN /\ Return("nil")
                    /\ UNCHANGED ci
               ELSE /\ ci' = ci + 1
                    /\ pc' = "deleteList"
                    /\ UNCHANGED ret
            /\ UNCHANGED <<pi, deleted>>
       ELSE LET pod == items[pi] IN
            IF phase[pod] = "Running"
            THEN \E ok \in BOOLEAN :
                   IF ok
                   THEN /\ deleted' = deleted \cup {pod}
                        /\ pi' = pi + 1
                        /\ UNCHANGED <<ret, pc, ci>>
                   ELSE /\ Return("delete error")
                        /\ UNCHANGED <<pi, ci, deleted>>
            ELSE /\ pi' = pi + 1
                 /\ UNCHANGED <<ret, pc, ci, deleted>>
    /\ UNCHANGED <<op, version, cluster, items, statusOk, tasks, history,
                   listFailed, observed, apart>>

\* ------------------------------------------------------------------------
\* Check (cloud.go:231-239), with checkStatus (cloud.go:397-430) taken pod
\* by pod, and List (cloud.go:131-168) as an operation
\* ------------------------------------------------------------------------
\* The order of the loop of Check, cloud.go:232
CheckOrder == <<TiKV, PD, TiDB>>

\* cloud.go:46-50 and cloud.go:62-69
BaseDir == "/var/lib/"
String(c) == IF c = TiDB THEN "tidb" ELSE IF c = PD THEN "pd" ELSE "tikv"
BataDir(c) == BaseDir \o String(c)

\* A checkStatus that runs the command of kill on the pod
statusProbeKills(name) == "kill 1"

\* checkStatus, cloud.go:408-415: the probe of the component
statusProbe(name) ==
    IF name = TiKV THEN "ps -Cp 1|awk '{print NF}'" ELSE "ps|awk '{print NF}'"

\* List, cloud.go:142-146: the listing of the backup directories
listProbe(cp) == "ls " \o BataDir(cp) \o "|grep bat"

\* List, cloud.go:134-151: the components on whose pods List runs its
\* command, those it reaches with every listing and exec before gone through
ListReached(listOk, errs) ==
    {BackOrder[k] : k \in
        {k \in 1..Len(BackOrder) :
            /\ \A j \in 1..k : listOk[j]
            /\ \A p \in BackPods :
                 (\E j \in 1..(k - 1) : PodComponent(p) = BackOrder[j])
                     => ~errs[p]}}

\* checkStatus, cloud.go:398-405, called with status true at cloud.go:233; its
\* false makes Check return false (cloud.go:233-236)
checkStatusList ==
    /\ op = "Check" /\ pc = "checkStatusList"
    /\ \E ok \in BOOLEAN :
        IF ok
        THEN /\ items' = ListPods(CheckOrder[ci])
             /\ pi' = 1
             /\ pc' = "checkStatusPod"
             /\ listFailed' = FALSE
             /\ UNCHANGED ret
        ELSE /\ Return("false")
             /\ listFailed' = TRUE
             /\ UNCHANGED <<items, pi>>
    /\ UNCHANGED <<op, version, cluster, ci, statusOk, tasks, history, deleted,
                   observed, apart>>

\* A checkStatus that passes a pod whose probe could not be run
probeExecIgnored(execErr) == FALSE

\* What checkStatus does when exec of the probe fails: cloud.go:417-420
\* returns false.
probeExecFails(execErr) == execErr

\* checkStatus, cloud.go:406-429, one iteration of the loop over the pods, or
\* its exit with true back to the loop of Check (cloud.go:232-238)
checkStatusPod ==
    /\ op = "Check" /\ pc = "checkStatusPod"
    /\ IF pi > Len(items)
       THEN /\ IF ci = Len(CheckOrder)
               THEN /\ Return("true")
                    /\ UNCHANGED ci
               ELSE /\ ci' = ci + 1
                    /\ pc' = "checkStatusList"
                    /\ UNCHANGED ret
            /\ UNCHANGED <<pi, probeFailed, commands>>
       ELSE LET pod == items[pi] IN
            IF phase[pod] = "Running"
            THEN \E err \in ExecErrs :
                   /\ commands' = commands \cup {statusProbe(CheckOrder[ci])}
                   /\ probeFailed' = IF err THEN probeFailed \cup {pod}
                                     ELSE probeFailed
                   /\ IF probeExecFails(err)
                      THEN /\ Return("false")
                           /\ UNCHANGED pi
                      ELSE IF Len(output[pod]) < 2
                      THEN /\ pc' = "panic"
                           /\ UNCHANGED <<ret, pi>>
                      ELSE IF statusMismatch(TRUE, Atoi(output[pod][2]))
                      THEN /\ Return("false")
                           /\ UNCHANGED pi
                      ELSE /\ pi' = pi + 1
                           /\ UNCHANGED <<ret, pc>>
                   /\ UNCHANGED ci
            ELSE /\ pi' = pi + 1
                 /\ UNCHANGED <<ret, pc, ci, probeFailed, commands>>
    /\ UNCHANGED <<op, version, cluster, items, statusOk, tasks, history,
                   listFailed, deleted, listed, apart>>

\* cloud.go:131-168: the call of List, which returns the map and nil, or a nil
\* map and the error of a listing or of an exec
ListCall ==
    /\ op = "List" /\ pc = "List"
    /\ \E listOk \in ListOks, errs \in ListErrs :
        LET r == List(listOk, errs) IN
        /\ listed' = r.rst
        /\ Return(IF ~r.err THEN "nil"
                  ELSE IF ListingFailed(listOk, errs) THEN "list error"
                  ELSE "exec failed")
        /\ listFailed' = ListingFailed(listOk, errs)
        /\ commands' = {listProbe(cp) : cp \in ListReached(listOk, errs)}
    /\ UNCHANGED <<op, version, cluster, items, ci, pi, statusOk, tasks, history,
                   deleted, probeFailed, apart>>

\* ------------------------------------------------------------------------
\* CloudOperator.exec (cloud.go:321-341), one call of the channel at a time
\* ------------------------------------------------------------------------
\* What one call of the channel may write to stdout
Chunks == {"a", "b"}

\* A ReadAll that leaves what it read in the buffer
ReadAllKeeps(buf) == [read |-> buf, rest |-> buf]

\* ioutil.ReadAll(stdout), cloud.go:329 and cloud.go:333: everything in the
\* buffer is read and taken out of it.
ReadAll(buf) == [read |-> buf, rest |-> <<>>]

\* cloud.go:325-339, one iteration of the loop: the call of the channel, then
\* either the return of what stdout holds, or the log of it and the sleep
execAttempt ==
    /\ op = "exec" /\ pc = "execLoop"
    /\ attempt < MaxRetry
    /\ \E ok \in BOOLEAN, chunk \in Chunks :
        LET r == ReadAll(Append(stdout, chunk)) IN
        /\ calls' = Append(calls, [ok |-> ok, out |-> chunk])
        /\ stdout' = r.rest
        /\ IF ok
           THEN /\ info' = r.read
                /\ Return("nil")
                /\ UNCHANGED attempt
           ELSE /\ attempt' = attempt + 1
                /\ UNCHANGED <<info, pc, ret>>
    /\ UNCHANGED <<op, version, cluster, operator, shell, cli>>

\* cloud.go:324 and cloud.go:340: the loop is left after MaxRetry iterations
execExhausted ==
    /\ op = "exec" /\ pc = "execLoop"
    /\ attempt >= MaxRetry
    /\ info' = <<>>
    /\ Return("exec failed")
    /\ UNCHANGED <<op, version, cluster, operator, attempt, calls, stdout, shell,
                   cli>>

\* ------------------------------------------------------------------------
\* BackExecCmd (cloud.go:72-86) and RestoreExecCmd (cloud.go:89-99): the
\* command lines, and what the scripts do in the data directory
\* ------------------------------------------------------------------------
\* strings.Join(steps, ";") for the two and three steps of the scripts
Join2(a, b) == a \o ";" \o b
Join3(a, b, c) == a \o ";" \o b \o ";" \o c

\* The grave accent of the command substitution, a character that a string
\* of TLA+ cannot hold, and the \` the Go literals of cloud.go:82 and
\* cloud.go:94 put into the command line
Grave == "<grave accent>"
EscapedGrave == "\\" \o Grave

\* cloud.go:74 and cloud.go:92: backDir
backDir(c, v) == BataDir(c) \o "/" \o v \o ".bat"

\* cloud.go:72-86
BackExecCmd(c, v) ==
    LET dir == BataDir(c)
        shFile == dir \o "/back_" \o v \o ".sh"
        cmd == Join3("rm -rf " \o backDir(c, v),
                     "mkdir -p " \o backDir(c, v),
                     "cd " \o dir
                        \o ";/bin/cp -rf " \o EscapedGrave
                        \o "ls -A | grep -vE 'bat|space_placeholder_file'"
                        \o EscapedGrave \o " " \o backDir(c, v) \o " -v")
    IN "echo \"" \o cmd \o "\" > " \o shFile \o ";sh " \o shFile

\* cloud.go:89-99
RestoreExecCmd(c, v) ==
    LET dir == BaseDir \o String(c)
        shFile == dir \o "/restore_" \o v \o ".sh"
        cmd == Join2("cd " \o dir
                        \o ";rm -rf " \o EscapedGrave
                        \o "ls -A | grep -vE 'bat|space_placeholder_file' "
                        \o EscapedGrave \o " -v",
                     "/bin/cp -rf " \o backDir(c, v) \o "/* " \o dir \o " -v")
    IN "echo \"" \o cmd \o "\" > " \o shFile \o ";sh " \o shFile

\* The command lines TestRestoreAndBack expects (cloud_test.go:22-46),
\* written for any component and version
ExpectedBackCmd(c, v) ==
    LET dir == "/var/lib/" \o String(c)
        back == dir \o "/" \o v \o ".back"
        shFile == dir \o "/back_" \o v \o ".sh"
    IN "echo \"mkdir -p " \o back \o ";cd " \o dir \o ";/bin/cp -rf "
          \o EscapedGrave \o "ls -A | grep -vE \"back|space_placeholder_file\""
          \o EscapedGrave \o " " \o back \o " -v\" > " \o shFile
          \o ";sh " \o shFile

ExpectedRestoreCmd(c, v) ==
    LET dir == "/var/lib/" \o String(c)
        back == dir \o "/" \o v \o ".back"
        shFile == dir \o "/restore_" \o v \o ".sh"
    IN "echo \"cd " \o dir \o ";rm -rf "
          \o EscapedGrave \o "ls -A | grep -vE \"back|space_placeholder_file\" "
          \o EscapedGrave \o " " \o dir \o " -v;/bin/cp -rf " \o back \o "/* "
          \o dir \o " -v\" > " \o shFile \o ";sh " \o shFile

\* A file name is the sequence of its parts, and a pattern of grep matches
\* the names that hold its parts one after the other.
Contains(name, pat) ==
    \E i \in 1..(Len(name) - Len(pat) + 1) :
        SubSeq(name, i, i + Len(pat) - 1) = pat

\* The names of cloud.go:74, cloud.go:75 and cloud.go:91 in the directory
BackDirName(v) == <<v, ".", "bat">>
BackShName(v) == <<"back_", v, ".sh">>
RestoreShName(v) == <<"restore_", v, ".sh">>

\* The pattern the test of the scripts has: back|space_placeholder_file
TestPatterns == {<<"back">>, <<"space_placeholder_file">>}

\* grep -vE 'bat|space_placeholder_file' (cloud.go:82 and cloud.go:94)
ExcludePatterns == {<<"bat">>, <<"space_placeholder_file">>}

\* The names grep -vE drops from the output of ls -A
Excluded(name) == \E pat \in ExcludePatterns : Contains(name, pat)

\* A name that begins with a dot: ls -A prints it, the * of the shell does
\* not match it.
Hidden(name) == name[1] = "."

\* The directory without entries
EmptyDir == [name \in {} |-> {}]

\* echo ".." > name, and mkdir -p name: the entry is there afterwards
Write(dir, name) ==
    [n \in DOMAIN dir \cup {name} |-> IF n \in DOMAIN dir THEN dir[n] ELSE {}]

\* rm -rf names
Remove(dir, names) == [n \in DOMAIN dir \ names |-> dir[n]]

\* /bin/cp -rf names target, in the directory: the target holds the names
CopyInto(dir, names, target) == [dir EXCEPT ![target] = @ \cup names]

\* /bin/cp -rf backDir/* dir: the entries of the backup directory that the *
\* matches are in the directory afterwards; cp fails with nothing copied when
\* the * matches nothing.
CopyOut(dir, source) ==
    LET matched == IF source \in DOMAIN dir
                   THEN {n \in dir[source] : ~Hidden(n)}
                   ELSE {}
    IN [n \in DOMAIN dir \cup matched |-> IF n \in DOMAIN dir THEN dir[n] ELSE {}]

\* What the command of BackExecCmd does in the data directory: the script
\* is written (cloud.go:85), then the steps of cloud.go:79-83
BackScript(dir, v) ==
    LET written == Write(dir, BackShName(v))
        cleared == Remove(written, {BackDirName(v)})
        made == Write(cleared, BackDirName(v))
        sources == {n \in DOMAIN made : ~Excluded(n)}
    IN CopyInto(made, sources, BackDirName(v))

\* What the command of RestoreExecCmd does in the data directory: the script
\* is written (cloud.go:98), then the steps of cloud.go:93-96
RestoreScript(dir, v) ==
    LET written == Write(dir, RestoreShName(v))
        removed == Remove(written, {n \in DOMAIN written : ~Excluded(n)})
    IN CopyOut(removed, BackDirName(v))

\* The versions the scripts are run for
Versions == {"5.1", "5.2"}

\* How many scripts are run in one data directory
MaxRuns == 3

\* Back, cloud.go:266-270: exec of the backup script on a pod
RunBackExecCmd ==
    /\ op = "scripts" /\ Len(runs) < MaxRuns
    /\ \E v \in Versions :
        /\ version' = v
        /\ script' = BackExecCmd(comp, v)
        /\ before' = DOMAIN fs
        /\ fs' = BackScript(fs, v)
        /\ runs' = Append(runs, <<"back", v>>)
    /\ UNCHANGED <<op, pc, ret, cluster, operator, gateway, comp, cli>>

\* Restore, cloud.go:304-308: exec of the restore script on a pod
RunRestoreExecCmd ==
    /\ op = "scripts" /\ Len(runs) < MaxRuns
    /\ \E v \in Versions :
        /\ version' = v
        /\ script' = RestoreExecCmd(comp, v)
        /\ fs' = RestoreScript(fs, v)
        /\ runs' = Append(runs, <<"restore", v>>)
    /\ UNCHANGED <<op, pc, ret, cluster, operator, gateway, comp, before, cli>>

\* Entries a data directory may hold: a data file, a hidden one, one with
\* bat in its name, and the placeholder
Entries == {<<"db">>, <<".", "lock">>, <<"bat", "ch">>, <<"space_placeholder_file">>}

\* ------------------------------------------------------------------------
\* The commands back and restore of the CLI (ctl/command/cloud.go:115-227).
\* What an operation of CloudOperator returns is taken from its outcomes:
\* nil or an error, for Check true or false.  Every NewCloudOperator of one
\* command is given the same config, and makes an operator or none.
\* ------------------------------------------------------------------------
\* The operation the command runs between stop and start
Snapshot == IF command = "back" THEN "Back" ELSE "Restore"

\* What the operations return: nil or the errors of cloud.go:202, 217, 225
\* (Stop), 185, 192 (Start), 246, 257 (Back), 286, 295 (Restore)
Outcomes(name) ==
    IF name = "Stop" THEN {"nil", "list error", "update error", "exec failed"}
    ELSE IF name = "Start" THEN {"nil", "list error", "update error", "delete error"}
    ELSE IF name = "Back" THEN {"nil", "check failed", "list error"}
    ELSE {"nil", "list error"}

\* What CloudCommand.stop returns after Stop: ctl/command/cloud.go:121-125
\* prints the error of Stop and returns nil.
stopReturn(stopErr) == "nil"

\* ctl/command/cloud.go:166-169 and 203-206 with stop, 115-126: without an
\* operator stop prints and returns nil; the command ends when stop
\* returns an error.
cliStop ==
    /\ op = "cli" /\ pc = "stop"
    /\ \E stopErr \in Outcomes("Stop") :
        LET co == client
            r == IF co THEN stopReturn(stopErr) ELSE "nil" IN
        /\ trace' = IF co THEN Append(trace, <<"Stop", stopErr>>) ELSE trace
        /\ pc' = IF r = "nil" THEN "snapshot" ELSE "done"
    /\ UNCHANGED <<op, version, ret, cluster, operator, gateway, shell, command,
                   client, polls>>

\* ctl/command/cloud.go:170-181 and 207-218: Back or Restore of the version;
\* the command ends without an operator and when the call returns an error.
cliSnapshot ==
    /\ op = "cli" /\ pc = "snapshot"
    /\ \E err \in Outcomes(Snapshot) :
        LET co == client IN
        /\ trace' = IF co THEN Append(trace, <<Snapshot, err>>) ELSE trace
        /\ pc' = IF co /\ err = "nil" THEN "start" ELSE "done"
    /\ UNCHANGED <<op, version, ret, cluster, operator, gateway, shell, command,
                   client, polls>>

\* ctl/command/cloud.go:183-187 and 220-226 with start, 128-137: the command
\* ends without an operator and when Start returns an error.
cliStart ==
    /\ op = "cli" /\ pc = "start"
    /\ \E err \in Outcomes("Start") :
        LET co == client IN
        /\ trace' = IF co THEN Append(trace, <<"Start", err>>) ELSE trace
        /\ IF co /\ err = "nil"
           THEN pc' = "poll" /\ polls' = 0
           ELSE pc' = "done" /\ UNCHANGED polls
    /\ UNCHANGED <<op, version, ret, cluster, operator, gateway, shell, command,
                   client>>

\* How often start calls check: ctl/command/cloud.go:139
StartPolls == 5

\* start, ctl/command/cloud.go:139-147 with check, 150-160: one iteration of
\* the loop, or its exit after five
cliPoll ==
    /\ op = "cli" /\ pc = "poll"
    /\ IF polls < StartPolls
       THEN \E passed \in BOOLEAN :
              LET co == client IN
              /\ trace' = IF co
                          THEN Append(trace, <<"Check", IF passed THEN "true" ELSE "false">>)
                          ELSE trace
              /\ IF co /\ passed
                 THEN pc' = "done" /\ UNCHANGED polls
                 ELSE polls' = polls + 1 /\ UNCHANGED pc
       ELSE /\ pc' = "done"
            /\ UNCHANGED <<trace, polls>>
    /\ UNCHANGED <<op, version, ret, cluster, operator, gateway, shell, command,
                   client>>

\* ------------------------------------------------------------------------
\* Initial states and the specifications
\* ------------------------------------------------------------------------
DebugMap == MapPut(EmptyMap, DebugLabel, DebugValue)

\* The probe output and listing of a pod that no operation execs on
NoOutput == <<TextLine>>
NoListing == <<EmptyLine>>

\* No exec is taken call by call
GatewayIdle ==
    /\ attempt = 0
    /\ calls = <<>>
    /\ stdout = <<>>
    /\ info = <<>>

\* No script is run
ShellIdle ==
    /\ comp = TiKV
    /\ fs = EmptyDir
    /\ runs = <<>>
    /\ before = {}
    /\ script = ""

\* No command of the CLI is run
CliIdle ==
    /\ command = "none"
    /\ client = TRUE
    /\ trace = <<>>
    /\ polls = 0

\* Where the call of operation o begins
EntryPoint(o) ==
    IF o = "Stop" THEN "StopList"
    ELSE IF o = "Start" THEN "StartList"
    ELSE IF o = "Check" THEN "checkStatusList"
    ELSE IF o = "List" THEN "List"
    ELSE IF o = "Back" THEN "BackCheck"
    ELSE "RestoreCheckStatus"

\* The pods whose phase operation o reads, those it runs the probe on, and
\* those whose data directory it lists
PhaseRead(o) ==
    IF o \in {"Stop", "Start", "Check"} THEN Pods
    ELSE IF o \in {"Back", "Restore"} THEN BackPods
    ELSE {}
ProbeRead(o) ==
    IF o = "Check" THEN Pods
    ELSE IF o \in {"Back", "Restore"} THEN BackPods
    ELSE {}
DirsRead(o) == IF o \in {"Restore", "List"} THEN BackPods ELSE {}

\* The operations that work on every pod of the namespace
Lifecycle == {"Stop", "Start"}

\* The state when operation o is called.  A cluster field that o never reads
\* is held at one value: Stop and Start read the phases and the annotations;
\* Check the phases and the probe outputs of the running pods; Back the
\* phases of the TiKV and PD pods and the probe outputs of those running;
\* Restore those and the listings of the TiKV and PD pods; List the listings.
InitOp(o) ==
    /\ op = o
    /\ version = "5.2"
    /\ pc = EntryPoint(o)
    /\ ret = "none"
    /\ phase \in [Pods -> Phases]
    /\ \A p \in Pods \ PhaseRead(o) : phase[p] = "Running"
    /\ annot \in [Pods -> IF o \in Lifecycle THEN AnnotationMaps ELSE {DebugMap}]
    /\ output \in [Pods -> ProbeOutputs \cup {NoOutput}]
    /\ \A p \in Pods :
        IF p \in ProbeRead(o) /\ phase[p] = "Running"
        THEN output[p] \in ProbeOutputs
        ELSE output[p] = NoOutput
    /\ dirs \in [Pods -> DirListings]
    /\ \A p \in Pods \ DirsRead(o) : dirs[p] = NoListing
    /\ items = <<>>
    /\ ci = 1
    /\ pi = 1
    /\ statusOk = TRUE
    /\ tasks = [p \in Pods |-> "none"]
    /\ updateFailed = {}
    /\ updated = {}
    /\ killSent = {}
    /\ killFailed = {}
    /\ listFailed = FALSE
    /\ deleted = {}
    /\ probeFailed = {}
    /\ listed = EmptyRst
    /\ commands = {}
    /\ GatewayIdle
    /\ ShellIdle
    /\ CliIdle

InitStop == InitOp("Stop")
InitBack == InitOp("Back")
InitRestore == InitOp("Restore")
InitStart == InitOp("Start")
InitCheck == InitOp("Check")
InitList == InitOp("List")

\* The calls of the two operations that only look at the cluster
InitObserve == InitCheck \/ InitList

\* A cluster no field of which the call reads
ClusterAside ==
    /\ phase = [p \in Pods |-> "Running"]
    /\ annot = [p \in Pods |-> DebugMap]
    /\ output = [p \in Pods |-> NoOutput]
    /\ dirs = [p \in Pods |-> NoListing]

\* No operation of CloudOperator is under way
OperatorIdle ==
    /\ items = <<>>
    /\ ci = 1
    /\ pi = 1
    /\ statusOk = TRUE
    /\ tasks = [p \in Pods |-> "none"]
    /\ updateFailed = {}
    /\ updated = {}
    /\ killSent = {}
    /\ killFailed = {}
    /\ listFailed = FALSE
    /\ deleted = {}
    /\ probeFailed = {}
    /\ listed = EmptyRst
    /\ commands = {}

\* A data directory of a TiKV or PD pod, with some of the entries and maybe
\* the backup an earlier run of the backup script made there
InitScripts ==
    /\ op = "scripts"
    /\ version = "5.2"
    /\ pc = "scripts"
    /\ ret = "none"
    /\ ClusterAside
    /\ OperatorIdle
    /\ GatewayIdle
    /\ comp \in {TiKV, PD}
    /\ \E held \in SUBSET Entries, earlier \in BOOLEAN :
        fs = IF earlier THEN BackScript([n \in held |-> {}], "5.1")
             ELSE [n \in held |-> {}]
    /\ runs = <<>>
    /\ before = {}
    /\ script = ""
    /\ CliIdle

\* ctl/command/cloud.go:162 and 199: the command back or restore is run
InitCli ==
    /\ op = "cli"
    /\ version = "5.2"
    /\ pc = "stop"
    /\ ret = "none"
    /\ ClusterAside
    /\ OperatorIdle
    /\ GatewayIdle
    /\ ShellIdle
    /\ command \in {"back", "restore"}
    /\ client \in BOOLEAN
    /\ trace = <<>>
    /\ polls = 0

\* cloud.go:322-324: exec is called, its buffers are empty and i is 0
InitExec ==
    /\ op = "exec"
    /\ version = "5.2"
    /\ pc = "execLoop"
    /\ ret = "none"
    /\ ClusterAside
    /\ OperatorIdle
    /\ GatewayIdle
    /\ ShellIdle
    /\ CliIdle

Init ==
    \/ InitStop
    \/ InitBack
    \/ InitRestore
    \/ InitStart
    \/ InitObserve
    \/ InitExec
    \/ InitScripts
    \/ InitCli

NextStop ==
    \/ StopList
    \/ StopAnnotate
    \/ killList
    \/ killPod

NextBack ==
    \/ BackCheck
    \/ BackFanOut
    \/ BackWait
    \/ Task

NextRestore ==
    \/ RestoreCheckStatus
    \/ RestoreCheckVersion
    \/ RestoreFanOut
    \/ RestoreWait
    \/ Task

NextStart ==
    \/ StartList
    \/ StartAnnotate
    \/ deleteList
    \/ deletePod

NextObserve ==
    \/ checkStatusList
    \/ checkStatusPod
    \/ ListCall

NextScripts ==
    \/ RunBackExecCmd
    \/ RunRestoreExecCmd

NextCli ==
    \/ cliStop
    \/ cliSnapshot
    \/ cliStart
    \/ cliPoll

NextExec ==
    \/ execAttempt
    \/ execExhausted

Next ==
    \/ StopList
    \/ StopAnnotate
    \/ killList
    \/ killPod
    \/ BackCheck
    \/ BackFanOut
    \/ BackWait
    \/ RestoreCheckStatus
    \/ RestoreCheckVersion
    \/ RestoreFanOut
    \/ RestoreWait
    \/ Task
    \/ StartList
    \/ StartAnnotate
    \/ deleteList
    \/ deletePod
    \/ checkStatusList
    \/ checkStatusPod
    \/ ListCall
    \/ execAttempt
    \/ execExhausted
    \/ RunBackExecCmd
    \/ RunRestoreExecCmd
    \/ cliStop
    \/ cliSnapshot
    \/ cliStart
    \/ cliPoll

Spec == Init /\ [][Next]_vars
SpecStop == InitStop /\ [][NextStop]_vars
SpecBack == InitBack /\ [][NextBack]_vars
SpecRestore == InitRestore /\ [][NextRestore]_vars
SpecStart == InitStart /\ [][NextStart]_vars
SpecObserve == InitObserve /\ [][NextObserve]_vars
SpecScripts == InitScripts /\ [][NextScripts]_vars
SpecCli == InitCli /\ [][NextCli]_vars

\* exec is sequential code of one goroutine: each call of the channel
\* returns, and the loop goes on after the sleep.
SpecExec == InitExec /\ [][NextExec]_vars /\ WF_vars(NextExec)

\* ------------------------------------------------------------------------
\* Properties
\* ------------------------------------------------------------------------
\* A running pod whose status probe prints a count above the threshold
NotQuiesced(p) ==
    /\ phase[p] = "Running"
    /\ Len(output[p]) >= 2
    /\ Atoi(output[p][2]) > Threshold

\* Every running TiKV and PD pod prints a count as the second line of its probe
NumericProbes ==
    \A p \in BackPods :
        phase[p] = "Running" => (Len(output[p]) >= 2 /\ output[p][2].num)

\* The calls of Back and Restore on a cluster whose probes print numbers,
\* where no probe output stops the call before its goroutines.
InitSnapshot == (InitBack \/ InitRestore) /\ NumericProbes

NextSnapshot == NextBack \/ NextRestore

SpecSnapshot == InitSnapshot /\ [][NextSnapshot]_vars

PodsOf(cp) == {p \in Pods : PodComponent(p) = cp}

\* The pods a goroutine running the script was started for
Started == {p \in Pods : tasks[p] # "none"}

Returned == pc = "done"

\* C1: when a running TiKV or PD pod is not quiesced (its probe shows a count
\* above 8), Back returns an error and has started the backup script on no
\* pod of any component.
C1_BackAbortsBeforeAnyData ==
    (op = "Back" /\ Returned /\ NumericProbes /\ \E p \in BackPods : NotQuiesced(p))
        => (ret # "nil" /\ Started = {})

\* C2: Restore starts the restore script on a pod of a component only when
\* no running pod of that component is not quiesced, and with such a pod
\* Restore returns an error.
C2_RestoreOnlyWhenQuiesced ==
    (op = "Restore" /\ NumericProbes) =>
        \A cp \in {TiKV, PD} :
            (\E p \in PodsOf(cp) : NotQuiesced(p))
                => /\ Started \cap PodsOf(cp) = {}
                   /\ Returned => ret # "nil"

\* The listing of the pod shows no backup directory of the version
LacksVersion(p) == \A i \in 1..Len(dirs[p]) : dirs[p][i] # BackDir(version)

\* C3: when the version is absent from the backup directories of some TiKV
\* or PD pod, Restore returns an error and starts the restore script on no
\* pod.
C3_RestoreAbortsOnMissingVersion ==
    (op = "Restore" /\ \E p \in BackPods : LacksVersion(p))
        => /\ Started = {}
           /\ Returned => ret # "nil"

\* The call has taken a step for the component PD: it has moved past the
\* first step of the loop body for PD.
PDStepTaken ==
    /\ BackOrder[ci] = PD
    /\ pc \notin {"BackCheck", "RestoreCheckStatus"}

\* C4: Back and Restore take the components in the order TiKV, PD, and take
\* no step for PD while a goroutine started for a TiKV pod is unfinished.
C4_Barrier ==
    /\ BackOrder = <<TiKV, PD>>
    /\ (op \in {"Back", "Restore"} /\ PDStepTaken)
           => InFlight \cap PodsOf(TiKV) = {}

\* C5: a call of Back or Restore that has gone through both components has
\* started a goroutine for exactly the TiKV and PD pods in the Running phase.
C5_TasksAreTheRunningPods ==
    (op \in {"Back", "Restore"} /\ Returned /\ ret = "nil")
        => Started = {p \in BackPods : phase[p] = "Running"}

\* C6: once the pre-checks and the listings of a call of Back or Restore
\* have gone through, the call returns nil, a goroutine was started for
\* every running TiKV and PD pod, and every goroutine has run to its end,
\* whether its exec failed or not.
C6_ExecFailureIsolated ==
    (op \in {"Back", "Restore"} /\ Returned
         /\ ret \notin {"check failed", "list error"})
        => /\ ret = "nil"
           /\ InFlight = {}
           /\ \A p \in BackPods : phase[p] = "Running" => p \in Started

\* C6 witness: a call that has returned nil with the exec of one pod failed
\* and that of another pod done.
C6_Witness ==
    /\ op \in {"Back", "Restore"} /\ Returned /\ ret = "nil"
    /\ \E p, q \in BackPods : tasks[p] = "failed" /\ tasks[q] = "ok"

\* C7: once an Update of Stop has failed, Stop has returned an error and
\* has sent the kill command to no pod.
C7_UpdateFailureAbortsStop ==
    updateFailed # {}
        => (Returned /\ ret \notin {"none", "nil"} /\ killSent = {})

\* C7 witness: the Update of a pod failed after that of another pod went
\* through, in a cluster with a running pod to kill.
C7_Witness ==
    /\ updateFailed # {} /\ pi > 1
    /\ \E p \in Pods : phase[p] = "Running"

HasDebugMarker(p) == MapHas(annot[p], DebugLabel, DebugValue)

StopRank(cp) == CHOOSE k \in 1..Len(StopOrder) : StopOrder[k] = cp
KilledAfter(q, p) ==
    \/ StopRank(PodComponent(q)) > StopRank(PodComponent(p))
    \/ PodComponent(q) = PodComponent(p) /\ q[2] > p[2]

\* C9: once the exec of the kill command has failed on a pod, Stop has
\* returned an error and has sent no kill to a pod that comes after it.
C9_KillFailureAbortsStop ==
    \A p \in killFailed :
        /\ Returned /\ ret \notin {"none", "nil"}
        /\ \A q \in killSent : ~KilledAfter(q, p)

\* C9 witness: the kill failed on a pod after the kill of another pod went
\* through, with a running pod still to come.
C9_Witness ==
    \E p \in killFailed :
        /\ killSent \ killFailed # {}
        /\ \E q \in Pods : phase[q] = "Running" /\ KilledAfter(q, p)

\* The order the README gives for the kills (step 2 of Back and of Recovery)
ReadmeOrder == <<TiDB, PD, TiKV>>
ReadmeRank(cp) == CHOOSE k \in 1..Len(ReadmeOrder) : ReadmeOrder[k] = cp

\* C10: Stop kills in the order TiDB, PD, TiKV: when a pod has been sent the
\* kill, every running pod of each earlier component has been killed.
C10_KillOrder ==
    \A q \in killSent :
        \A p \in Pods :
            (phase[p] = "Running"
                 /\ ReadmeRank(PodComponent(p)) < ReadmeRank(PodComponent(q)))
                => p \in killSent \ killFailed

\* C11: Start deletes a pod only after the Update that clears the debug
\* marker has succeeded for every pod of the namespace, and once an Update
\* of Start has failed, Start has returned an error and has deleted no pod.
C11_StartDeletesAfterUpdates ==
    op = "Start" =>
        /\ deleted # {} => updated = Pods
        /\ updateFailed # {}
             => (Returned /\ ret \notin {"none", "nil"} /\ deleted = {})

\* C12: once a listing of pods has failed, the operation has returned an
\* error, so that it does nothing after the failed listing.
C12_ListingFailureAborts ==
    listFailed => (Returned /\ ret \notin {"none", "nil"})

\* The runs of the channel that begin with the calls made
RunsOfCalls ==
    {channel \in ChannelRuns :
        \A k \in 1..Len(calls) : channel[k] = calls[k].ok}

\* C13: one exec calls the channel at most MaxRetry (5) times and makes no
\* call after one that succeeded; it returns the stdout of the call that
\* succeeded; it returns an error exactly when five calls failed; and it
\* always returns.
C13_ExecRetry ==
    /\ [](op = "exec" =>
            /\ Len(calls) <= MaxRetry
            /\ \A k \in 1..(Len(calls) - 1) : ~calls[k].ok
            /\ ~Returned => \A k \in 1..Len(calls) : ~calls[k].ok
            /\ Returned =>
                /\ ret \in {"nil", "exec failed"}
                /\ ret = "exec failed"
                     <=> (Len(calls) = MaxRetry
                            /\ \A k \in 1..Len(calls) : ~calls[k].ok)
                /\ ret = "nil" => info = <<calls[Len(calls)].out>>
                /\ \A channel \in RunsOfCalls :
                     exec(channel) = [err |-> ret # "nil",
                                      attempts |-> Len(calls)])
    /\ <>Returned

\* C13 witness: exec has returned the output of a call that succeeded after
\* calls that failed.
C13_Witness ==
    /\ op = "exec" /\ Returned /\ ret = "nil"
    /\ Len(calls) > 2

\* The pod is running and its probe prints a count above the threshold
Above(p) ==
    /\ phase[p] = "Running"
    /\ Len(output[p]) >= 2 /\ output[p][2].num
    /\ output[p][2].val > Threshold

\* The pod is running and its probe prints a count at or below the threshold
AtOrBelow(p) ==
    /\ phase[p] = "Running"
    /\ Len(output[p]) >= 2 /\ output[p][2].num
    /\ output[p][2].val <= Threshold

\* Every running pod of the three components prints a count above the threshold
AllAbove == \A p \in Pods : phase[p] = "Running" => Above(p)

\* C14: a Check in which every running TiKV, PD and TiDB pod reports a
\* count above the threshold (8) returns true, and a Check returns false
\* when a running pod reports a count at or below the threshold or the exec
\* of its probe fails.
C14_CheckVerdict ==
    op = "Check" =>
        /\ (AllAbove /\ probeFailed = {} /\ ~listFailed)
             => (pc # "panic" /\ (Returned => ret = "true"))
        /\ (Returned /\ ((\E p \in Pods : AtOrBelow(p)) \/ probeFailed # {}))
             => ret = "false"

\* C14 witness: Check has returned false because the exec of a probe failed,
\* in a cluster all of whose pods run with counts above the threshold.
C14_Witness ==
    /\ op = "Check" /\ Returned /\ ret = "false"
    /\ probeFailed # {} /\ ~listFailed
    /\ \A p \in Pods : Above(p)

\* C15: a step of Check or of List changes nothing in the cluster, updates
\* and deletes no pod, sends no kill and starts no script, and the commands
\* they have run are the status probes and the listings of the backup
\* directories.
C15_ObserveOnly ==
    [][(op \in {"Check", "List"}) =>
         (/\ UNCHANGED <<cluster, updated, updateFailed, deleted, killSent,
                         killFailed, tasks>>
          /\ commands' \subseteq
               {"ps|awk '{print NF}'", "ps -Cp 1|awk '{print NF}'",
                "ls /var/lib/tikv|grep bat", "ls /var/lib/pd|grep bat"})]_vars

\* C15 witness: Check has run the probe on a TiKV pod and on another pod, or
\* List has returned the listing of a pod.
C15_Witness ==
    \/ op = "Check" /\ Returned /\ ret = "true" /\ Cardinality(commands) = 2
    \/ op = "List" /\ Returned /\ ret = "nil" /\ commands # {}

\* C16: no version List returns for a pod still ends with the suffix of the
\* backup directories: for the directory BackExecCmd creates for a version,
\* List returns the bare version.
C16_ListStripsSuffix ==
    (op = "List" /\ Returned /\ ret = "nil") =>
        \A p \in BackPods :
            /\ p \in DOMAIN listed
            /\ \A i \in 1..Len(listed[p]) : listed[p][i].suffix = ""
            /\ (\E j \in 1..Len(dirs[p]) : dirs[p][j] = BackDir(version))
                 => \E i \in 1..Len(listed[p]) : listed[p][i] = Name(version, "")

\* The latest script run
LastRun == runs[Len(runs)]

\* What the scripts for a version leave in the directory themselves
Artefacts(v) == {BackDirName(v), BackShName(v), RestoreShName(v)}

\* C17: when the backup script and then the restore script of the same
\* version have run in a data directory, the directory holds the names it
\* held before the backup, hidden names and names with bat in them
\* included, apart from the backup directory and the script files that the
\* two scripts leave there.
C17_RoundTrip ==
    (/\ op = "scripts" /\ Len(runs) >= 2
     /\ LastRun[1] = "restore"
     /\ runs[Len(runs) - 1] = <<"back", LastRun[2]>>)
        => DOMAIN fs \ Artefacts(LastRun[2]) = before \ Artefacts(LastRun[2])

\* C18: no backup directory in a data directory holds a backup directory of
\* any version or the placeholder file.
C18_NoNestedBackup ==
    op = "scripts" =>
        \A v \in Versions :
            BackDirName(v) \in DOMAIN fs =>
                /\ \A w \in Versions : BackDirName(w) \notin fs[BackDirName(v)]
                /\ <<"space_placeholder_file">> \notin fs[BackDirName(v)]

\* C18 witness: the backup script has run in a directory that holds the
\* backup of another version, the placeholder and a data file, and has copied
\* the data file.
C18_Witness ==
    /\ op = "scripts" /\ runs # <<>>
    /\ LastRun = <<"back", "5.2">>
    /\ {BackDirName("5.1"), <<"space_placeholder_file">>} \subseteq DOMAIN fs
    /\ <<"db">> \in fs[BackDirName("5.2")]

\* C19: the command line of a backup is the one the test expects: written
\* to and run from /var/lib/<component>/back_<v>.sh, it makes
\* /var/lib/<component>/<v>.back and copies what does not match
\* back|space_placeholder_file; that of a restore, written to and run from
\* restore_<v>.sh, removes those entries and copies <v>.back/* back.
C19_ScriptsAsTested ==
    (op = "scripts" /\ runs # <<>>) =>
        /\ LastRun[1] = "back" =>
            /\ script = ExpectedBackCmd(comp, LastRun[2])
            /\ <<LastRun[2], ".", "back">> \in DOMAIN fs
        /\ LastRun[1] = "restore" =>
            script = ExpectedRestoreCmd(comp, LastRun[2])

\* The place of an operation in the order of the phases
PhaseRank(name) ==
    IF name = "Stop" THEN 1
    ELSE IF name \in {"Back", "Restore"} THEN 2
    ELSE IF name = "Start" THEN 3
    ELSE 4

\* C20: the commands back and restore call the operations in the order Stop,
\* then Back or Restore, then Start, and they call Back or Restore only
\* after a Stop that returned without error.
C20_SnapshotOnlyAfterStop ==
    op = "cli" =>
        /\ \A i, j \in 1..Len(trace) :
             i < j => PhaseRank(trace[i][1]) <= PhaseRank(trace[j][1])
        /\ \A j \in 1..Len(trace) :
             trace[j][1] \in {"Back", "Restore"}
                 => \E i \in 1..(j - 1) : trace[i] = <<"Stop", "nil">>

\* C21: when a call of Back or Restore has returned, with nil or with an
\* error, no goroutine it started for a pod is still running its exec.
C21_NoTaskInFlightAfterReturn ==
    (op \in {"Back", "Restore"} /\ Returned) => InFlight = {}

\* The pod is running and its probe prints no number as a second line: no
\* second line at all, or one that is no number
Unparseable(p) ==
    /\ phase[p] = "Running"
    /\ (Len(output[p]) < 2 \/ ~output[p][2].num)

\* C22: Back does not take a running pod whose probe prints no number as its
\* second line for quiesced: it starts the backup script on no pod of the
\* component of such a pod.
C22_UnparseableProbeRejected ==
    op = "Back" =>
        \A p \in BackPods :
            Unparseable(p) => Started \cap PodsOf(PodComponent(p)) = {}

\* C23: a command back or restore that has called Stop has called Start when
\* it ends, also when Back or Restore returned an error.
C23_StartAfterStop ==
    (/\ op = "cli" /\ Returned
     /\ \E i \in 1..Len(trace) : trace[i][1] = "Stop")
        => \E j \in 1..Len(trace) : trace[j][1] = "Start"
====
